---- MODULE Spec2Model ----
(***************************************************************************)
(* Model of src/api.py: the Flask handler predict() and the experta        *)
(* KnowledgeEngine OxygenPredictor it drives.                              *)
(*                                                                         *)
(* Numbers.  Sensor readings and thresholds are decimal numbers with at    *)
(* most one fractional digit (4, 6.5, 2.0, ...).  They are represented in  *)
(* tenths: 65 stands for 6.5.  Severities are unscaled.                    *)
(*                                                                         *)
(* Texts.  Warning, recommendation and prediction strings are those of the *)
(* source with the leading emoji removed (ASCII only).                     *)
(*                                                                         *)
(* Engine.  experta is a library; the source fixes neither a salience nor  *)
(* a conflict-resolution strategy, so the order in which the activations   *)
(* on the agenda fire is not determined by src/api.py.  The agenda is a    *)
(* bag of activations and run() fires them one at a time in any order.     *)
(* Every rule body reads the wall clock itself (get_time_of_day), so the   *)
(* clock may advance between two firings of one evaluation.                *)
(***************************************************************************)
EXTENDS Integers, Sequences, FiniteSets, TLC

VARIABLES
    hour,        \* wall clock, hour of day in Asia/Manila (datetime.now().hour)
    ticks,       \* number of times the clock advanced (bounds the run)
    pc,          \* pc[c]: position of call c inside predict()
    data,        \* data[c]: request.json of call c (a JSON object)
    facts,       \* facts[c]: facts declared in the engine of call c
    agenda,      \* agenda[c]: pending activations of the engine, rule -> count
    predictor,   \* predictor[c]: attributes of the OxygenPredictor of call c
    response     \* response[c]: what predict() returned

vars == <<hour, ticks, pc, data, facts, agenda, predictor, response>>

----------------------------------------------------------------------------
(* Bounds *)

\* the clock advances at most MaxTicks hours during one run
MaxTicks == 1

\* concurrent requests (threads of the WSGI server)
Calls == {1, 2}

----------------------------------------------------------------------------
(* JSON values of a request body.  t is the Python type json.loads gives. *)

Num(n)  == [t |-> "num",  n |-> n, s |-> ""]      \* int or float, in tenths
Str(s)  == [t |-> "str",  n |-> 0, s |-> s]
\* Python bool is a subclass of int: True == 1, False == 0
Bool(b) == [t |-> "bool", n |-> IF b THEN 10 ELSE 0, s |-> ""]

\* isinstance(v, (int, float))
IsNumber(v) == v.t \in {"num", "bool"}

\* dict.get(key, default)
DictGet(d, key, default) == IF key \in DOMAIN d THEN d[key] ELSE default

EmptyDict == [k \in {} |-> Num(0)]

----------------------------------------------------------------------------
(* class OxygenPredictor *)

\* OxygenPredictor.__init__; positive_messages and positive_suggestions are
\* created by finalize_decision and read only after it.
OxygenPredictor_init ==
    [relevant_issues               |-> <<>>,
     positive_feedback             |-> <<>>,
     most_relevant_warnings        |-> <<>>,
     most_relevant_recommendations |-> <<>>,
     predictions                   |-> <<>>,
     fish_type                     |-> "others",
     positive_messages             |-> <<>>,
     positive_suggestions          |-> <<>>]

\* the local variable predictor before line 904 has run
NoPredictor == [OxygenPredictor_init EXCEPT !.fish_type = ""]

\* add_issue without the membership test
add_issue_nodedup(self, warning, recommendation, severity, category, prediction) ==
    [self EXCEPT !.relevant_issues = Append(@,
        [warning        |-> warning,
         recommendation |-> recommendation,
         severity       |-> severity,
         category       |-> category,
         prediction     |-> prediction])]

add_issue(self, warning, recommendation, severity, category, prediction) ==
    IF ~ \E i \in DOMAIN self.relevant_issues :
             self.relevant_issues[i].warning = warning
    THEN [self EXCEPT !.relevant_issues = Append(@,
             [warning        |-> warning,
              recommendation |-> recommendation,
              severity       |-> severity,
              category       |-> category,
              prediction     |-> prediction])]
    ELSE self

add_positive_feedback(self, message, suggestion, category) ==
    [self EXCEPT !.positive_feedback = Append(@,
        [message |-> message, suggestion |-> suggestion, category |-> category])]

\* list.sort(key=lambda x: x["severity"], reverse=True): Python's sort is
\* stable, also with reverse=True, so equal severities keep their order.
InsertBySeverity(sorted, x) ==
    LET n == Cardinality({i \in DOMAIN sorted : sorted[i].severity >= x.severity})
    IN  SubSeq(sorted, 1, n) \o <<x>> \o SubSeq(sorted, n + 1, Len(sorted))

\* a sort that forgot reverse=True
RECURSIVE SortBySeverityAsc(_)
SortBySeverityAsc(issues) ==
    IF issues = <<>> THEN <<>>
    ELSE LET rest == SortBySeverityAsc(SubSeq(issues, 1, Len(issues) - 1))
             x == issues[Len(issues)]
             n == Cardinality({i \in DOMAIN rest : rest[i].severity <= x.severity})
         IN  SubSeq(rest, 1, n) \o <<x>> \o SubSeq(rest, n + 1, Len(rest))

RECURSIVE SortBySeverityDesc(_)
SortBySeverityDesc(issues) ==
    IF issues = <<>> THEN <<>>
    ELSE \* the sorted prefix is bound once, then the last issue is inserted
         CHOOSE s \in {InsertBySeverity(rest, issues[Len(issues)]) :
                          rest \in {SortBySeverityDesc(SubSeq(issues, 1, Len(issues) - 1))}} :
             TRUE

\* a finalize_decision that reports the no-issue case through the positive
\* feedback lists and leaves the warnings empty
finalize_decision_positive(self) ==
    LET decided ==
          IF self.relevant_issues = <<>>
          THEN add_positive_feedback(
                   [self EXCEPT !.most_relevant_warnings = <<>>,
                                !.most_relevant_recommendations = <<>>,
                                !.predictions = <<>>],
                   "All water parameters are in optimal range!",
                   "Maintain regular monitoring and continue good pond management practices.",
                   "general")
          ELSE LET sorted == SortBySeverityDesc(self.relevant_issues) IN
               [self EXCEPT
                  !.relevant_issues = sorted,
                  !.most_relevant_warnings =
                      [i \in DOMAIN sorted |-> sorted[i].warning],
                  !.most_relevant_recommendations =
                      [i \in DOMAIN sorted |-> sorted[i].recommendation],
                  !.predictions =
                      [i \in DOMAIN sorted |-> sorted[i].prediction]]
    IN  [decided EXCEPT
           !.positive_messages =
               [i \in DOMAIN decided.positive_feedback |-> decided.positive_feedback[i].message],
           !.positive_suggestions =
               [i \in DOMAIN decided.positive_feedback |-> decided.positive_feedback[i].suggestion]]

\* a finalize_decision that takes the predictions from the list as it was
\* before the sort
finalize_decision_unsorted_predictions(self) ==
    LET decided ==
          IF self.relevant_issues = <<>>
          THEN [self EXCEPT
                  !.most_relevant_warnings =
                      <<"All water parameters are in optimal range!">>,
                  !.most_relevant_recommendations =
                      <<"Maintain regular monitoring and continue good pond management practices.">>,
                  !.predictions = <<>>]
          ELSE LET sorted == SortBySeverityDesc(self.relevant_issues) IN
               [self EXCEPT
                  !.relevant_issues = sorted,
                  !.most_relevant_warnings =
                      [i \in DOMAIN sorted |-> sorted[i].warning],
                  !.most_relevant_recommendations =
                      [i \in DOMAIN sorted |-> sorted[i].recommendation],
                  !.predictions =
                      [i \in DOMAIN sorted |-> self.relevant_issues[i].prediction]]
    IN  [decided EXCEPT
           !.positive_messages =
               [i \in DOMAIN self.positive_feedback |-> self.positive_feedback[i].message],
           !.positive_suggestions =
               [i \in DOMAIN self.positive_feedback |-> self.positive_feedback[i].suggestion]]

\* a finalize_decision that walks the sorted issues, keeps the first issue of
\* each category and stops after two categories
finalize_decision_top2(self) ==
    LET sorted == SortBySeverityDesc(self.relevant_issues)
        firsts == {i \in DOMAIN sorted :
                      \A j \in 1..(i - 1) : sorted[j].category # sorted[i].category}
        keep   == {i \in firsts : Cardinality({j \in firsts : j < i}) < 2}
        chosen == [k \in 1..Cardinality(keep) |->
                      sorted[CHOOSE i \in keep : Cardinality({j \in keep : j < i}) = k - 1]]
    IN  IF self.relevant_issues = <<>>
        THEN [self EXCEPT
                !.most_relevant_warnings =
                    <<"All water parameters are in optimal range!">>,
                !.most_relevant_recommendations =
                    <<"Maintain regular monitoring and continue good pond management practices.">>,
                !.predictions = <<>>]
        ELSE [self EXCEPT
                !.relevant_issues = chosen,
                !.most_relevant_warnings = [i \in DOMAIN chosen |-> chosen[i].warning],
                !.most_relevant_recommendations =
                    [i \in DOMAIN chosen |-> chosen[i].recommendation],
                !.predictions = [i \in DOMAIN chosen |-> chosen[i].prediction]]

finalize_decision(self) ==
    LET decided ==
          IF self.relevant_issues = <<>>
          THEN [self EXCEPT
                  !.most_relevant_warnings =
                      <<"All water parameters are in optimal range!">>,
                  !.most_relevant_recommendations =
                      <<"Maintain regular monitoring and continue good pond management practices.">>,
                  !.predictions = <<>>]
          ELSE LET sorted == SortBySeverityDesc(self.relevant_issues) IN
               [self EXCEPT
                  !.relevant_issues = sorted,
                  !.most_relevant_warnings =
                      [i \in DOMAIN sorted |-> sorted[i].warning],
                  !.most_relevant_recommendations =
                      [i \in DOMAIN sorted |-> sorted[i].recommendation],
                  !.predictions =
                      [i \in DOMAIN sorted |-> sorted[i].prediction]]
    IN  [decided EXCEPT
           !.positive_messages =
               [i \in DOMAIN self.positive_feedback |-> self.positive_feedback[i].message],
           !.positive_suggestions =
               [i \in DOMAIN self.positive_feedback |-> self.positive_feedback[i].suggestion]]

\* datetime.now(Asia/Manila).hour mapped to a period
get_time_of_day ==
    IF 5 <= hour /\ hour < 12 THEN "morning"
    ELSE IF 12 <= hour /\ hour < 17 THEN "afternoon"
    ELSE IF 17 <= hour /\ hour < 20 THEN "evening"
    ELSE "night"

----------------------------------------------------------------------------
(* The rules.  A rule body takes the engine and the value MATCH bound, and *)
(* gives the engine after the body ran.                                    *)

\* class OxygenPredictor: src/api.py lines 92-95
set_others_fish_type(self) ==
    [self EXCEPT !.fish_type = "others"]

\* class OxygenPredictor: src/api.py lines 97-100
set_catfish_fish_type(self) ==
    [self EXCEPT !.fish_type = "catfish"]

\* class OxygenPredictor: src/api.py lines 102-105
set_tilapia_fish_type(self) ==
    [self EXCEPT !.fish_type = "tilapia"]

\* class OxygenPredictor: src/api.py lines 107-110
set_crayfish_fish_type(self) ==
    [self EXCEPT !.fish_type = "crayfish"]

\* class OxygenPredictor: src/api.py lines 113-134
critically_low_oxygen_others(self, do) ==
    LET time_period == get_time_of_day IN
    IF time_period = "night"
    THEN add_issue(self,
             "Nighttime oxygen depletion!",
             "Increase water circulation at night to prevent oxygen crashes. Avoid overfeeding fish, as uneaten food can consume oxygen.",
             4,
             "oxygen",
             "Fish may suffocate and die if oxygen levels remain critically low.")
    ELSE add_issue(self,
             "Critically low oxygen levels! Fish may be lethargic or surfacing.",
             "Increase water circulation. Reduce organic waste by cleaning debris and avoiding overfeeding.",
             4,
             "oxygen",
             "Fish may become lethargic, stop eating, and eventually die if oxygen levels are not increased.")

\* class OxygenPredictor: src/api.py lines 137-158
critically_low_oxygen_catfish(self, do) ==
    LET time_period == get_time_of_day IN
    IF time_period = "night"
    THEN add_issue(self,
             "Nighttime oxygen depletion!",
             "Increase water circulation at night to prevent oxygen crashes. Avoid overfeeding fish, as uneaten food can consume oxygen.",
             4,
             "oxygen",
             "Catfish may suffocate and die if oxygen levels remain critically low.")
    ELSE add_issue(self,
             "Critically low oxygen levels! Catfish may be lethargic or surfacing.",
             "Increase water circulation. Reduce organic waste by cleaning debris and avoiding overfeeding.",
             4,
             "oxygen",
             "Catfish may become lethargic, stop eating, and eventually die if oxygen levels are not increased.")

\* class OxygenPredictor: src/api.py lines 161-182
critically_low_oxygen_tilapia(self, do) ==
    LET time_period == get_time_of_day IN
    IF time_period = "night"
    THEN add_issue(self,
             "Nighttime oxygen depletion!",
             "Increase water circulation at night to prevent oxygen crashes. Avoid overfeeding fish, as uneaten food can consume oxygen.",
             4,
             "oxygen",
             "Tilapia may suffocate and die if oxygen levels remain critically low.")
    ELSE add_issue(self,
             "Critically low oxygen levels! Tilapia may be lethargic or surfacing.",
             "Increase water circulation. Reduce organic waste by cleaning debris and avoiding overfeeding.",
             4,
             "oxygen",
             "Tilapia may become lethargic, stop eating, and eventually die if oxygen levels are not increased.")

\* class OxygenPredictor: src/api.py lines 185-206
critically_low_oxygen_crayfish(self, do) ==
    LET time_period == get_time_of_day IN
    IF time_period = "night"
    THEN add_issue(self,
             "Nighttime oxygen depletion!",
             "Increase water circulation at night to prevent oxygen crashes. Avoid overfeeding fish, as uneaten food can consume oxygen.",
             4,
             "oxygen",
             "Crayfish may suffocate and die if oxygen levels remain critically low.")
    ELSE add_issue(self,
             "Critically low oxygen levels! Crayfish may be lethargic or surfacing.",
             "Increase water circulation. Reduce organic waste by cleaning debris and avoiding overfeeding.",
             4,
             "oxygen",
             "Crayfish may become lethargic, stop eating, and eventually die if oxygen levels are not increased.")

\* class OxygenPredictor: src/api.py lines 209-246
high_temperature_others(self, temp) ==
    LET time_period == get_time_of_day IN
    IF time_period = "morning"
    THEN add_issue(self,
             "High morning temperatures detected! Oxygen levels may drop.",
             "Provide shade using floating plants or shade cloths. Increase water depth to reduce heat absorption.",
             3,
             "temperature",
             "High temperatures can reduce oxygen levels, stressing fish and making them more susceptible to diseases.")
    ELSE IF time_period = "afternoon"
         THEN add_issue(self,
                  "High afternoon temperatures detected! Oxygen levels may drop.",
                  "Provide shade using floating plants or shade cloths. Increase water depth to reduce heat absorption. Avoid direct sunlight exposure.",
                  3,
                  "temperature",
                  "Prolonged high temperatures can lead to fish stress, reduced appetite, and increased mortality.")
         ELSE IF time_period = "evening"
              THEN add_issue(self,
                       "High evening temperatures detected! Oxygen levels may drop.",
                       "Increase aeration and water circulation to cool the water.",
                       3,
                       "temperature",
                       "Fish may become stressed and lethargic if water temperatures remain high.")
              ELSE add_issue(self,
                       "High nighttime temperatures detected! Oxygen levels may drop.",
                       "Increase aeration and water circulation to cool the water. Monitor fish behavior for signs of stress.",
                       3,
                       "temperature",
                       "Fish may experience stress and reduced oxygen levels, leading to potential fatalities.")

\* class OxygenPredictor: src/api.py lines 249-286
high_temperature_catfish(self, temp) ==
    LET time_period == get_time_of_day IN
    IF time_period = "morning"
    THEN add_issue(self,
             "High morning temperatures detected! Oxygen levels may drop.",
             "Provide shade using floating plants or shade cloths. Increase water depth to reduce heat absorption.",
             3,
             "temperature",
             "High temperatures can reduce oxygen levels, stressing catfish and making them more susceptible to diseases.")
    ELSE IF time_period = "afternoon"
         THEN add_issue(self,
                  "High afternoon temperatures detected! Oxygen levels may drop.",
                  "Provide shade using floating plants or shade cloths. Increase water depth to reduce heat absorption. Avoid direct sunlight exposure.",
                  3,
                  "temperature",
                  "Prolonged high temperatures can lead to catfish stress, reduced appetite, and increased mortality.")
         ELSE IF time_period = "evening"
              THEN add_issue(self,
                       "High evening temperatures detected! Oxygen levels may drop.",
                       "Increase aeration and water circulation to cool the water.",
                       3,
                       "temperature",
                       "Catfish may become stressed and lethargic if water temperatures remain high.")
              ELSE add_issue(self,
                       "High nighttime temperatures detected! Oxygen levels may drop.",
                       "Increase aeration and water circulation to cool the water. Monitor catfish behavior for signs of stress.",
                       3,
                       "temperature",
                       "Catfish may experience stress and reduced oxygen levels, leading to potential fatalities.")

\* class OxygenPredictor: src/api.py lines 289-326
high_temperature_tilapia(self, temp) ==
    LET time_period == get_time_of_day IN
    IF time_period = "morning"
    THEN add_issue(self,
             "High morning temperatures detected! Oxygen levels may drop.",
             "Provide shade using floating plants or shade cloths. Increase water depth to reduce heat absorption.",
             3,
             "temperature",
             "High temperatures can reduce oxygen levels, stressing tilapia and making them more susceptible to diseases.")
    ELSE IF time_period = "afternoon"
         THEN add_issue(self,
                  "High afternoon temperatures detected! Oxygen levels may drop.",
                  "Provide shade using floating plants or shade cloths. Increase water depth to reduce heat absorption. Avoid direct sunlight exposure.",
                  3,
                  "temperature",
                  "Prolonged high temperatures can lead to tilapia stress, reduced appetite, and increased mortality.")
         ELSE IF time_period = "evening"
              THEN add_issue(self,
                       "High evening temperatures detected! Oxygen levels may drop.",
                       "Increase aeration and water circulation to cool the water.",
                       3,
                       "temperature",
                       "Tilapia may become stressed and lethargic if water temperatures remain high.")
              ELSE add_issue(self,
                       "High nighttime temperatures detected! Oxygen levels may drop.",
                       "Increase aeration and water circulation to cool the water. Monitor tilapia behavior for signs of stress.",
                       3,
                       "temperature",
                       "Tilapia may experience stress and reduced oxygen levels, leading to potential fatalities.")

\* class OxygenPredictor: src/api.py lines 329-366
high_temperature_crayfish(self, temp) ==
    LET time_period == get_time_of_day IN
    IF time_period = "morning"
    THEN add_issue(self,
             "High morning temperatures detected! Oxygen levels may drop.",
             "Provide shade using floating plants or shade cloths. Increase water depth to reduce heat absorption.",
             3,
             "temperature",
             "High temperatures can reduce oxygen levels, stressing crayfish and making them more susceptible to diseases.")
    ELSE IF time_period = "afternoon"
         THEN add_issue(self,
                  "High afternoon temperatures detected! Oxygen levels may drop.",
                  "Provide shade using floating plants or shade cloths. Increase water depth to reduce heat absorption. Avoid direct sunlight exposure.",
                  3,
                  "temperature",
                  "Prolonged high temperatures can lead to crayfish stress, reduced appetite, and increased mortality.")
         ELSE IF time_period = "evening"
              THEN add_issue(self,
                       "High evening temperatures detected! Oxygen levels may drop.",
                       "Increase aeration and water circulation to cool the water.",
                       3,
                       "temperature",
                       "Crayfish may become stressed and lethargic if water temperatures remain high.")
              ELSE add_issue(self,
                       "High nighttime temperatures detected! Oxygen levels may drop.",
                       "Increase aeration and water circulation to cool the water. Monitor crayfish behavior for signs of stress.",
                       3,
                       "temperature",
                       "Crayfish may experience stress and reduced oxygen levels, leading to potential fatalities.")

\* class OxygenPredictor: src/api.py lines 369-389
low_ph_others(self, ph) ==
    IF ph < 40
    THEN add_issue(self,
             "Extremely low pH detected! Water is highly acidic and dangerous for fish.",
             "Immediately add baking soda (1 teaspoon per 5 gallons) to raise pH or perform a partial water change to reduce acidity.",
             5,
             "ph",
             "Fish may experience severe stress, tissue damage, and death if pH remains extremely low.")
    ELSE add_issue(self,
             "Low pH detected! Water is too acidic.",
             "Add baking soda (1/2 teaspoon per 5 gallons) to raise pH gradually or perform a partial water change to dilute acidity.",
             3,
             "ph",
             "Fish may become stressed, stop eating, and develop health issues if pH is not corrected.")

\* class OxygenPredictor: src/api.py lines 391-402
low_ph_catfish(self, ph) ==
    add_issue(self,
        "Low pH detected! Catfish prefer a pH between 6.5 and 8.0.",
        "Add baking soda (1/2 teaspoon per 5 gallons) to raise pH gradually. Place limestone or crushed eggshells in the pond to stabilize pH.",
        3,
        "ph",
        "Catfish may become stressed and stop eating if pH is not corrected.")

\* class OxygenPredictor: src/api.py lines 404-415
low_ph_tilapia(self, ph) ==
    add_issue(self,
        "Low pH detected for Tilapia!",
        "Add baking soda (1/2 teaspoon per 5 gallons) to raise pH gradually. Place limestone or crushed eggshells in the pond to stabilize pH.",
        3,
        "ph",
        "Tilapia may become stressed and stop eating if pH is not corrected.")

\* class OxygenPredictor: src/api.py lines 417-428
low_ph_crayfish(self, ph) ==
    add_issue(self,
        "Low pH detected for Crayfish!",
        "Add baking soda (1/2 teaspoon per 5 gallons) to raise pH gradually. Place limestone or crushed eggshells in the pond to stabilize pH.",
        3,
        "ph",
        "Crayfish may become stressed and stop eating if pH is not corrected.")

\* class OxygenPredictor: src/api.py lines 431-460
low_temperature_others(self, temp) ==
    LET time_period == get_time_of_day IN
    IF time_period = "morning"
    THEN add_issue(self,
             "Low morning temperatures detected! Fish may become sluggish.",
             "Increase water temperature using a heater or by covering the pond to retain heat. Avoid sudden temperature changes.",
             3,
             "temperature",
             "Fish may become sluggish, stop eating, and become more susceptible to diseases if temperatures remain low.")
    ELSE IF time_period = "night"
         THEN add_issue(self,
                  "Low nighttime temperatures detected! Fish may become sluggish.",
                  "Increase water temperature using a heater or by covering the pond to retain heat. Monitor fish behavior for signs of stress.",
                  3,
                  "temperature",
                  "Fish may become sluggish, stop eating, and become more susceptible to diseases if temperatures remain low.")
         ELSE add_issue(self,
                  "Low temperatures detected! Fish may become sluggish.",
                  "Increase water temperature using a heater or by covering the pond to retain heat. Avoid sudden temperature changes.",
                  3,
                  "temperature",
                  "Fish may become sluggish, stop eating, and become more susceptible to diseases if temperatures remain low.")

\* class OxygenPredictor: src/api.py lines 463-492
low_temperature_catfish(self, temp) ==
    LET time_period == get_time_of_day IN
    IF time_period = "morning"
    THEN add_issue(self,
             "Low morning temperatures detected for Catfish!",
             "Increase water temperature using a heater or by covering the pond to retain heat. Avoid sudden temperature changes.",
             3,
             "temperature",
             "Catfish may become sluggish, stop eating, and become more susceptible to diseases if temperatures remain low.")
    ELSE IF time_period = "night"
         THEN add_issue(self,
                  "Low nighttime temperatures detected for Catfish!",
                  "Increase water temperature using a heater or by covering the pond to retain heat. Monitor catfish behavior for signs of stress.",
                  3,
                  "temperature",
                  "Catfish may become sluggish, stop eating, and become more susceptible to diseases if temperatures remain low.")
         ELSE add_issue(self,
                  "Low temperatures detected for Catfish!",
                  "Increase water temperature using a heater or by covering the pond to retain heat. Avoid sudden temperature changes.",
                  3,
                  "temperature",
                  "Catfish may become sluggish, stop eating, and become more susceptible to diseases if temperatures remain low.")

\* class OxygenPredictor: src/api.py lines 495-524
low_temperature_tilapia(self, temp) ==
    LET time_period == get_time_of_day IN
    IF time_period = "morning"
    THEN add_issue(self,
             "Low morning temperatures detected! Not ideal for Tilapia.",
             "Increase water temperature using a heater or by covering the pond to retain heat. Avoid sudden temperature changes.",
             3,
             "temperature",
             "Tilapia may become sluggish, stop eating, and become more susceptible to diseases if temperatures remain low.")
    ELSE IF time_period = "night"
         THEN add_issue(self,
                  "Low nighttime temperatures detected! Too cold for Tilapia.",
                  "Increase water temperature using a heater or by covering the pond to retain heat. Monitor tilapia behavior for signs of stress.",
                  3,
                  "temperature",
                  "Tilapia may become sluggish, stop eating, and become more susceptible to diseases if temperatures remain low.")
         ELSE add_issue(self,
                  "Low temperatures detected! Too cold for Tilapia.",
                  "Increase water temperature using a heater or by covering the pond to retain heat. Avoid sudden temperature changes.",
                  3,
                  "temperature",
                  "Tilapia may become sluggish, stop eating, and become more susceptible to diseases if temperatures remain low.")

\* class OxygenPredictor: src/api.py lines 527-556
low_temperature_crayfish(self, temp) ==
    LET time_period == get_time_of_day IN
    IF time_period = "morning"
    THEN add_issue(self,
             "Low morning temperatures detected for Crayfish!",
             "Increase water temperature using a heater or by covering the pond to retain heat. Avoid sudden temperature changes.",
             3,
             "temperature",
             "Crayfish may become sluggish, stop eating, and become more susceptible to diseases if temperatures remain low.")
    ELSE IF time_period = "night"
         THEN add_issue(self,
                  "Low nighttime temperatures detected for Crayfish!",
                  "Increase water temperature using a heater or by covering the pond to retain heat. Monitor crayfish behavior for signs of stress.",
                  3,
                  "temperature",
                  "Crayfish may become sluggish, stop eating, and become more susceptible to diseases if temperatures remain low.")
         ELSE add_issue(self,
                  "Low temperatures detected for Crayfish!",
                  "Increase water temperature using a heater or by covering the pond to retain heat. Avoid sudden temperature changes.",
                  3,
                  "temperature",
                  "Crayfish may become sluggish, stop eating, and become more susceptible to diseases if temperatures remain low.")

\* class OxygenPredictor: src/api.py lines 558-569
high_ph_others(self, ph) ==
    add_issue(self,
        "High pH detected! Water is too alkaline.",
        "Perform a partial water change (20-30%) with fresh water. Add 1 teaspoon of white vinegar per 5 gallons to lower pH slightly and perform a partial water change to reduce alkalinity.",
        3,
        "ph",
        "Fish may experience stress, reduced growth, and increased susceptibility to diseases if pH remains high.")

\* class OxygenPredictor: src/api.py lines 571-582
high_ph_catfish(self, ph) ==
    add_issue(self,
        "High pH detected for Catfish!",
        "Perform a partial water change (20-30%) with fresh water. Add a handful of dry leaves (e.g., banana leaves) to the pond to naturally lower pH.",
        3,
        "ph",
        "Catfish may experience stress and reduced growth if pH remains high.")

\* class OxygenPredictor: src/api.py lines 584-595
high_ph_tilapia(self, ph) ==
    add_issue(self,
        "High pH detected for Tilapia!",
        "Perform a partial water change (20-30%) with fresh water. Add 1 teaspoon of white vinegar per 5 gallons to lower pH slightly.",
        3,
        "ph",
        "Tilapia may experience stress and reduced growth if pH remains high.")

\* class OxygenPredictor: src/api.py lines 597-608
high_ph_crayfish(self, ph) ==
    add_issue(self,
        "High pH detected for Crayfish!",
        "Perform a partial water change (20-30%) with fresh water. Add a handful of dry leaves (e.g., banana leaves) to the pond to naturally lower pH.",
        3,
        "ph",
        "Crayfish may experience stress and reduced growth if pH remains high.")

\* class OxygenPredictor: src/api.py lines 611-628
high_salinity_others(self, sal) ==
    LET time_period == get_time_of_day IN
    LET warning == IF time_period # ""
            THEN "High salinity detected in the " \o time_period \o "! Potential stress on freshwater fish."
            ELSE "High salinity detected! Potential stress on freshwater fish." IN
    add_issue(self,
        warning,
        "Dilute the water by adding fresh water gradually. Identify and remove sources of salt contamination.",
        3,
        "salinity",
        "Freshwater fish may experience osmotic stress, leading to dehydration and death if salinity remains high.")

\* class OxygenPredictor: src/api.py lines 630-647
high_salinity_catfish(self, sal) ==
    LET time_period == get_time_of_day IN
    LET warning == IF time_period # ""
            THEN "High salinity detected in the " \o time_period \o " for Catfish!"
            ELSE "High salinity detected for Catfish!" IN
    add_issue(self,
        warning,
        "Dilute the water by adding fresh water gradually.",
        3,
        "salinity",
        "Catfish may experience osmotic stress if salinity remains high.")

\* class OxygenPredictor: src/api.py lines 649-666
high_salinity_tilapia(self, sal) ==
    LET time_period == get_time_of_day IN
    LET warning == IF time_period # ""
            THEN "High salinity detected in the " \o time_period \o " for Tilapia!"
            ELSE "High salinity detected for Tilapia!" IN
    add_issue(self,
        warning,
        "Dilute the water by adding fresh water gradually.",
        3,
        "salinity",
        "Tilapia may experience osmotic stress if salinity remains high.")

\* class OxygenPredictor: src/api.py lines 668-685
high_salinity_crayfish(self, sal) ==
    LET time_period == get_time_of_day IN
    LET warning == IF time_period # ""
            THEN "High salinity detected in the " \o time_period \o " for Crayfish!"
            ELSE "High salinity detected for Crayfish!" IN
    add_issue(self,
        warning,
        "Dilute the water by adding fresh water gradually.",
        3,
        "salinity",
        "Crayfish may experience osmotic stress if salinity remains high.")

\* high_ammonia_others with the extreme band starting at 3.5 itself
high_ammonia_others_inclusive(self, amm) ==
    IF amm >= 35
    THEN add_issue(self,
             "Extremely high ammonia levels detected! Toxic to fish.",
             "Immediately perform a partial water change to reduce ammonia levels. Increase aeration and reduce feeding to minimize ammonia production.",
             5,
             "ammonia",
             "Fish may suffer from ammonia poisoning, leading to gill damage, lethargy, and death.")
    ELSE add_issue(self,
             "High ammonia levels detected! Potential stress on fish.",
             "Perform a partial water change and increase aeration. Reduce feeding and remove any decaying organic matter.",
             4,
             "ammonia",
             "Fish may experience stress, reduced appetite, and increased susceptibility to diseases if ammonia levels remain high.")

\* class OxygenPredictor: src/api.py lines 688-708
high_ammonia_others(self, amm) ==
    IF amm > 35
    THEN add_issue(self,
             "Extremely high ammonia levels detected! Toxic to fish.",
             "Immediately perform a partial water change to reduce ammonia levels. Increase aeration and reduce feeding to minimize ammonia production.",
             5,
             "ammonia",
             "Fish may suffer from ammonia poisoning, leading to gill damage, lethargy, and death.")
    ELSE add_issue(self,
             "High ammonia levels detected! Potential stress on fish.",
             "Perform a partial water change and increase aeration. Reduce feeding and remove any decaying organic matter.",
             4,
             "ammonia",
             "Fish may experience stress, reduced appetite, and increased susceptibility to diseases if ammonia levels remain high.")

\* class OxygenPredictor: src/api.py lines 710-730
high_ammonia_catfish(self, amm) ==
    IF amm > 45
    THEN add_issue(self,
             "Extremely high ammonia levels detected! Toxic to catfish.",
             "Immediately perform a partial water change to reduce ammonia levels. Increase aeration and reduce feeding to minimize ammonia production.",
             5,
             "ammonia",
             "Catfish may suffer from ammonia poisoning, leading to gill damage, lethargy, and death.")
    ELSE add_issue(self,
             "High ammonia levels detected! Potential stress on catfish.",
             "Perform a partial water change and increase aeration. Reduce feeding and remove any decaying organic matter.",
             4,
             "ammonia",
             "Catfish may experience stress, reduced appetite, and increased susceptibility to diseases if ammonia levels remain high.")

\* class OxygenPredictor: src/api.py lines 732-752
high_ammonia_tilapia(self, amm) ==
    IF amm > 35
    THEN add_issue(self,
             "Extremely high ammonia levels detected! Toxic to tilapia.",
             "Immediately perform a partial water change to reduce ammonia levels. Increase aeration and reduce feeding to minimize ammonia production.",
             5,
             "ammonia",
             "Tilapia may suffer from ammonia poisoning, leading to gill damage, lethargy, and death.")
    ELSE add_issue(self,
             "High ammonia levels detected! Potential stress on tilapia.",
             "Perform a partial water change and increase aeration. Reduce feeding and remove any decaying organic matter.",
             4,
             "ammonia",
             "Tilapia may experience stress, reduced appetite, and increased susceptibility to diseases if ammonia levels remain high.")

\* class OxygenPredictor: src/api.py lines 754-774
high_ammonia_crayfish(self, amm) ==
    IF amm > 25
    THEN add_issue(self,
             "Extremely high ammonia levels detected! Toxic to crayfish.",
             "Immediately perform a partial water change to reduce ammonia levels. Increase aeration and reduce feeding to minimize ammonia production.",
             5,
             "ammonia",
             "Crayfish may suffer from ammonia poisoning, leading to lethargy and death.")
    ELSE add_issue(self,
             "High ammonia levels detected! Potential stress on crayfish.",
             "Perform a partial water change and increase aeration. Reduce feeding and remove any decaying organic matter.",
             4,
             "ammonia",
             "Crayfish may experience stress and increased susceptibility to diseases if ammonia levels remain high.")

\* module level, outside the class: src/api.py lines 777-788
high_turbidity_others(self, turb) ==
    add_issue(self,
        "High turbidity detected! Water is too cloudy.",
        "Reduce feeding to minimize waste. Add aquatic plants to stabilize sediment.",
        3,
        "turbidity",
        "Fish may experience gill irritation and reduced growth.")

\* module level, outside the class: src/api.py lines 790-801
extremely_high_turbidity_others(self, turb) ==
    add_issue(self,
        "Extremely high turbidity detected! Dangerous for fish.",
        "Immediately stop feeding and perform partial water changes. Add flocculants.",
        5,
        "turbidity",
        "Fish may suffocate from clogged gills.")

\* module level, outside the class: src/api.py lines 804-815
high_turbidity_catfish(self, turb) ==
    add_issue(self,
        "High turbidity for catfish!",
        "Reduce feeding and improve filtration.",
        3,
        "turbidity",
        "Reduced feeding efficiency expected.")

\* module level, outside the class: src/api.py lines 817-828
extreme_turbidity_catfish(self, turb) ==
    add_issue(self,
        "Extremely high turbidity! Catfish feeding reduced",
        "Stop feeding for 12 hours. Add aeration and perform water change.",
        4,
        "turbidity",
        "Significant growth reduction if prolonged.")

\* module level, outside the class: src/api.py lines 831-842
high_turbidity_tilapia(self, turb) ==
    add_issue(self,
        "Turbidity reducing tilapia feeding!",
        "Increase feeding frequency with smaller portions.",
        3,
        "turbidity",
        "20% feed waste expected.")

\* module level, outside the class: src/api.py lines 844-855
extreme_turbidity_tilapia(self, turb) ==
    add_issue(self,
        "Critical turbidity for tilapia!",
        "Emergency: Stop feeding for 24h and increase aeration.",
        5,
        "turbidity",
        "Growth stunting likely.")

\* module level, outside the class: src/api.py lines 858-869
high_turbidity_crayfish(self, turb) ==
    add_issue(self,
        "High turbidity for crayfish!",
        "Add limestone rocks and avoid disturbing sediment.",
        3,
        "turbidity",
        "Possible molting issues.")

\* module level, outside the class: src/api.py lines 871-882
extreme_turbidity_crayfish(self, turb) ==
    add_issue(self,
        "EMERGENCY: High crayfish mortality risk",
        "Immediate action: 30% water change + banana-leaf filtration.",
        5,
        "turbidity",
        "Mass mortality during molting.")
----------------------------------------------------------------------------
(* The rules the engine has: the @Rule methods of class OxygenPredictor, in  *)
(* declaration order.  The turbidity rules are functions at module level,    *)
(* not attributes of the class, so the engine does not have them.            *)

get_rules ==
    <<"set_others_fish_type",
      "set_catfish_fish_type",
      "set_tilapia_fish_type",
      "set_crayfish_fish_type",
      "critically_low_oxygen_others",
      "critically_low_oxygen_catfish",
      "critically_low_oxygen_tilapia",
      "critically_low_oxygen_crayfish",
      "high_temperature_others",
      "high_temperature_catfish",
      "high_temperature_tilapia",
      "high_temperature_crayfish",
      "low_ph_others",
      "low_ph_catfish",
      "low_ph_tilapia",
      "low_ph_crayfish",
      "low_temperature_others",
      "low_temperature_catfish",
      "low_temperature_tilapia",
      "low_temperature_crayfish",
      "high_ph_others",
      "high_ph_catfish",
      "high_ph_tilapia",
      "high_ph_crayfish",
      "high_salinity_others",
      "high_salinity_catfish",
      "high_salinity_tilapia",
      "high_salinity_crayfish",
      "high_ammonia_others",
      "high_ammonia_catfish",
      "high_ammonia_tilapia",
      "high_ammonia_crayfish">>

RuleNames == {get_rules[i] : i \in DOMAIN get_rules}

\* the patterns of the @Rule decorator: key is the parameter of the first
\* Fact pattern ("" if the rule has only the fish_type pattern), fish the
\* literal of the Fact(fish_type=...) pattern
LHS(r) ==
    CASE r = "set_others_fish_type" -> [key |-> "", fish |-> "others"]
      [] r = "set_catfish_fish_type" -> [key |-> "", fish |-> "catfish"]
      [] r = "set_tilapia_fish_type" -> [key |-> "", fish |-> "tilapia"]
      [] r = "set_crayfish_fish_type" -> [key |-> "", fish |-> "crayfish"]
      [] r = "critically_low_oxygen_others" -> [key |-> "dissolved_oxygen", fish |-> "others"]
      [] r = "critically_low_oxygen_catfish" -> [key |-> "dissolved_oxygen", fish |-> "catfish"]
      [] r = "critically_low_oxygen_tilapia" -> [key |-> "dissolved_oxygen", fish |-> "tilapia"]
      [] r = "critically_low_oxygen_crayfish" -> [key |-> "dissolved_oxygen", fish |-> "crayfish"]
      [] r = "high_temperature_others" -> [key |-> "temperature", fish |-> "others"]
      [] r = "high_temperature_catfish" -> [key |-> "temperature", fish |-> "catfish"]
      [] r = "high_temperature_tilapia" -> [key |-> "temperature", fish |-> "tilapia"]
      [] r = "high_temperature_crayfish" -> [key |-> "temperature", fish |-> "crayfish"]
      [] r = "low_ph_others" -> [key |-> "ph_level", fish |-> "others"]
      [] r = "low_ph_catfish" -> [key |-> "ph_level", fish |-> "catfish"]
      [] r = "low_ph_tilapia" -> [key |-> "ph_level", fish |-> "tilapia"]
      [] r = "low_ph_crayfish" -> [key |-> "ph_level", fish |-> "crayfish"]
      [] r = "low_temperature_others" -> [key |-> "temperature", fish |-> "others"]
      [] r = "low_temperature_catfish" -> [key |-> "temperature", fish |-> "catfish"]
      [] r = "low_temperature_tilapia" -> [key |-> "temperature", fish |-> "tilapia"]
      [] r = "low_temperature_crayfish" -> [key |-> "temperature", fish |-> "crayfish"]
      [] r = "high_ph_others" -> [key |-> "ph_level", fish |-> "others"]
      [] r = "high_ph_catfish" -> [key |-> "ph_level", fish |-> "catfish"]
      [] r = "high_ph_tilapia" -> [key |-> "ph_level", fish |-> "tilapia"]
      [] r = "high_ph_crayfish" -> [key |-> "ph_level", fish |-> "crayfish"]
      [] r = "high_salinity_others" -> [key |-> "salinity", fish |-> "others"]
      [] r = "high_salinity_catfish" -> [key |-> "salinity", fish |-> "catfish"]
      [] r = "high_salinity_tilapia" -> [key |-> "salinity", fish |-> "tilapia"]
      [] r = "high_salinity_crayfish" -> [key |-> "salinity", fish |-> "crayfish"]
      [] r = "high_ammonia_others" -> [key |-> "ammonia", fish |-> "others"]
      [] r = "high_ammonia_catfish" -> [key |-> "ammonia", fish |-> "catfish"]
      [] r = "high_ammonia_tilapia" -> [key |-> "ammonia", fish |-> "tilapia"]
      [] r = "high_ammonia_crayfish" -> [key |-> "ammonia", fish |-> "crayfish"]

\* the P(lambda x: ...) predicate of the first Fact pattern of each rule,
\* thresholds in tenths
critically_low_oxygen_others_P(x) == x < 40
critically_low_oxygen_catfish_P(x) == x < 40
\* the tilapia rule with the catfish threshold
critically_low_oxygen_tilapia_P_below4(x) == x < 40
critically_low_oxygen_tilapia_P(x) == x < 50
critically_low_oxygen_crayfish_P(x) == x < 50
high_temperature_others_P(x) == x > 300
high_temperature_catfish_P(x) == x > 320
high_temperature_tilapia_P(x) == x > 300
high_temperature_crayfish_P(x) == x > 240
low_ph_others_P(x) == x < 60
low_ph_catfish_P(x) == x < 65
low_ph_tilapia_P(x) == x < 65
low_ph_crayfish_P(x) == x < 65
\* the low-temperature rule with an inclusive threshold
low_temperature_others_P_inclusive(x) == x <= 200
low_temperature_others_P(x) == x < 200
low_temperature_catfish_P(x) == x < 250
low_temperature_tilapia_P(x) == x < 260
low_temperature_crayfish_P(x) == x < 180
high_ph_others_P(x) == x > 80
high_ph_catfish_P(x) == x > 80
high_ph_tilapia_P(x) == x > 85
high_ph_crayfish_P(x) == x > 75
high_salinity_others_P(x) == x > 50
high_salinity_catfish_P(x) == x > 50
high_salinity_tilapia_P(x) == x > 50
high_salinity_crayfish_P(x) == x > 10
\* the ammonia rule with an inclusive threshold
high_ammonia_others_P_inclusive(x) == x >= 20
high_ammonia_others_P(x) == x > 20
high_ammonia_catfish_P(x) == x > 30
high_ammonia_tilapia_P(x) == x > 20
high_ammonia_crayfish_P(x) == x > 10
high_turbidity_others_P(x) == x > 500
extremely_high_turbidity_others_P(x) == x > 1000
high_turbidity_catfish_P(x) == x > 600
extreme_turbidity_catfish_P(x) == x > 1000
high_turbidity_tilapia_P(x) == x > 300
extreme_turbidity_tilapia_P(x) == x > 500
high_turbidity_crayfish_P(x) == x > 200
extreme_turbidity_crayfish_P(x) == x > 300

P(r, x) ==
    CASE r = "set_others_fish_type" -> TRUE
      [] r = "set_catfish_fish_type" -> TRUE
      [] r = "set_tilapia_fish_type" -> TRUE
      [] r = "set_crayfish_fish_type" -> TRUE
      [] r = "critically_low_oxygen_others" -> critically_low_oxygen_others_P(x)
      [] r = "critically_low_oxygen_catfish" -> critically_low_oxygen_catfish_P(x)
      [] r = "critically_low_oxygen_tilapia" -> critically_low_oxygen_tilapia_P(x)
      [] r = "critically_low_oxygen_crayfish" -> critically_low_oxygen_crayfish_P(x)
      [] r = "high_temperature_others" -> high_temperature_others_P(x)
      [] r = "high_temperature_catfish" -> high_temperature_catfish_P(x)
      [] r = "high_temperature_tilapia" -> high_temperature_tilapia_P(x)
      [] r = "high_temperature_crayfish" -> high_temperature_crayfish_P(x)
      [] r = "low_ph_others" -> low_ph_others_P(x)
      [] r = "low_ph_catfish" -> low_ph_catfish_P(x)
      [] r = "low_ph_tilapia" -> low_ph_tilapia_P(x)
      [] r = "low_ph_crayfish" -> low_ph_crayfish_P(x)
      [] r = "low_temperature_others" -> low_temperature_others_P(x)
      [] r = "low_temperature_catfish" -> low_temperature_catfish_P(x)
      [] r = "low_temperature_tilapia" -> low_temperature_tilapia_P(x)
      [] r = "low_temperature_crayfish" -> low_temperature_crayfish_P(x)
      [] r = "high_ph_others" -> high_ph_others_P(x)
      [] r = "high_ph_catfish" -> high_ph_catfish_P(x)
      [] r = "high_ph_tilapia" -> high_ph_tilapia_P(x)
      [] r = "high_ph_crayfish" -> high_ph_crayfish_P(x)
      [] r = "high_salinity_others" -> high_salinity_others_P(x)
      [] r = "high_salinity_catfish" -> high_salinity_catfish_P(x)
      [] r = "high_salinity_tilapia" -> high_salinity_tilapia_P(x)
      [] r = "high_salinity_crayfish" -> high_salinity_crayfish_P(x)
      [] r = "high_ammonia_others" -> high_ammonia_others_P(x)
      [] r = "high_ammonia_catfish" -> high_ammonia_catfish_P(x)
      [] r = "high_ammonia_tilapia" -> high_ammonia_tilapia_P(x)
      [] r = "high_ammonia_crayfish" -> high_ammonia_crayfish_P(x)

\* the body of rule r
RHS(r, self, x) ==
    CASE r = "set_others_fish_type" -> set_others_fish_type(self)
      [] r = "set_catfish_fish_type" -> set_catfish_fish_type(self)
      [] r = "set_tilapia_fish_type" -> set_tilapia_fish_type(self)
      [] r = "set_crayfish_fish_type" -> set_crayfish_fish_type(self)
      [] r = "critically_low_oxygen_others" -> critically_low_oxygen_others(self, x)
      [] r = "critically_low_oxygen_catfish" -> critically_low_oxygen_catfish(self, x)
      [] r = "critically_low_oxygen_tilapia" -> critically_low_oxygen_tilapia(self, x)
      [] r = "critically_low_oxygen_crayfish" -> critically_low_oxygen_crayfish(self, x)
      [] r = "high_temperature_others" -> high_temperature_others(self, x)
      [] r = "high_temperature_catfish" -> high_temperature_catfish(self, x)
      [] r = "high_temperature_tilapia" -> high_temperature_tilapia(self, x)
      [] r = "high_temperature_crayfish" -> high_temperature_crayfish(self, x)
      [] r = "low_ph_others" -> low_ph_others(self, x)
      [] r = "low_ph_catfish" -> low_ph_catfish(self, x)
      [] r = "low_ph_tilapia" -> low_ph_tilapia(self, x)
      [] r = "low_ph_crayfish" -> low_ph_crayfish(self, x)
      [] r = "low_temperature_others" -> low_temperature_others(self, x)
      [] r = "low_temperature_catfish" -> low_temperature_catfish(self, x)
      [] r = "low_temperature_tilapia" -> low_temperature_tilapia(self, x)
      [] r = "low_temperature_crayfish" -> low_temperature_crayfish(self, x)
      [] r = "high_ph_others" -> high_ph_others(self, x)
      [] r = "high_ph_catfish" -> high_ph_catfish(self, x)
      [] r = "high_ph_tilapia" -> high_ph_tilapia(self, x)
      [] r = "high_ph_crayfish" -> high_ph_crayfish(self, x)
      [] r = "high_salinity_others" -> high_salinity_others(self, x)
      [] r = "high_salinity_catfish" -> high_salinity_catfish(self, x)
      [] r = "high_salinity_tilapia" -> high_salinity_tilapia(self, x)
      [] r = "high_salinity_crayfish" -> high_salinity_crayfish(self, x)
      [] r = "high_ammonia_others" -> high_ammonia_others(self, x)
      [] r = "high_ammonia_catfish" -> high_ammonia_catfish(self, x)
      [] r = "high_ammonia_tilapia" -> high_ammonia_tilapia(self, x)
      [] r = "high_ammonia_crayfish" -> high_ammonia_crayfish(self, x)

----------------------------------------------------------------------------
(* The engine: declare() and the agenda *)

\* does fact f match the pattern Fact(key = P)?  A pattern only matches a
\* fact that has the key.
MatchesParam(r, f) ==
    /\ LHS(r).key \in DOMAIN f
    /\ IsNumber(f[LHS(r).key])
    /\ P(r, f[LHS(r).key].n)

\* does fact f match the pattern Fact(fish_type = literal)?
MatchesFish(r, f) ==
    /\ "fish_type" \in DOMAIN f
    /\ f["fish_type"] = Str(LHS(r).fish)

\* Number of activations of rule r over the declared facts fs.  The rete
\* joins every fact matching the first pattern with every fact matching the
\* second; the two patterns may be matched by the same fact.  The
\* activations of one rule run the same body with the same bound value.
Activations(r, fs) ==
    IF LHS(r).key = ""
    THEN Cardinality({j \in DOMAIN fs : MatchesFish(r, fs[j])})
    ELSE Cardinality({i \in DOMAIN fs : MatchesParam(r, fs[i])})
         * Cardinality({j \in DOMAIN fs : MatchesFish(r, fs[j])})

\* the value MATCH binds for rule r (0 for the rules that bind nothing)
Bound(r, fs) ==
    IF LHS(r).key = "" THEN 0
    ELSE LET i == CHOOSE i \in DOMAIN fs : MatchesParam(r, fs[i])
         IN  fs[i][LHS(r).key].n

EmptyAgenda == [r \in RuleNames |-> 0]

----------------------------------------------------------------------------
(* predict() *)

\* the required keys before turbidity was added to them
required_keys_without_turbidity ==
    <<"ph_level", "dissolved_oxygen", "temperature", "salinity", "ammonia">>

required_keys ==
    <<"ph_level", "dissolved_oxygen", "temperature", "salinity", "ammonia", "turbidity">>

\* the three checks of the validation loop for one key; "" when it passes
KeyError(d, key) ==
    IF key \notin DOMAIN d THEN "Missing key in input data: " \o key
    ELSE IF ~ IsNumber(d[key]) THEN key \o " must be a number!"
    ELSE IF d[key].n < 0 THEN key \o " must be non-negative!"
    ELSE ""

\* the error of the first key that fails, "" when the loop completes
ValidationError(d) ==
    LET bad == {i \in DOMAIN required_keys : KeyError(d, required_keys[i]) # ""}
    IN  IF bad = {} THEN ""
        ELSE KeyError(d, required_keys[CHOOSE i \in bad : \A j \in bad : i <= j])

NoResponse ==
    [status |-> 0, error |-> "", warnings |-> <<>>, recommendations |-> <<>>,
     positive_feedback |-> <<>>, positive_suggestions |-> <<>>, predictions |-> <<>>]

\* lines 889-900: the loop returns the error of the first failing key
PredictReject(c) ==
    /\ pc[c] = "request"
    /\ ValidationError(data[c]) # ""
    /\ response' = [response EXCEPT ![c] =
                      [NoResponse EXCEPT !.status = 400,
                                         !.error = ValidationError(data[c])]]
    /\ pc' = [pc EXCEPT ![c] = "done"]
    /\ UNCHANGED <<hour, ticks, data, facts, agenda, predictor>>

\* line 902: the default of data.get('fish_type', ...)
default_fish_type_catfish == "catfish"
default_fish_type == "others"

\* lines 902-907: the engine is created, reset, and the two facts declared
PredictDeclare(c) ==
    /\ pc[c] = "request"
    /\ ValidationError(data[c]) = ""
    /\ LET fish_type == DictGet(data[c], "fish_type", Str(default_fish_type))
           fs == <<data[c], [k \in {"fish_type"} |-> fish_type]>>
       IN  /\ facts' = [facts EXCEPT ![c] = fs]
           /\ agenda' = [agenda EXCEPT ![c] = [r \in RuleNames |-> Activations(r, fs)]]
    /\ predictor' = [predictor EXCEPT ![c] = OxygenPredictor_init]
    /\ pc' = [pc EXCEPT ![c] = "run"]
    /\ UNCHANGED <<hour, ticks, data, response>>

\* a step of run() whose rule body writes to a list all engines share
Fire_shared(c, r) ==
    /\ pc[c] = "run"
    /\ agenda[c][r] > 0
    /\ agenda' = [agenda EXCEPT ![c][r] = @ - 1]
    /\ predictor' = [d \in Calls |->
                        IF pc[d] = "run"
                        THEN RHS(r, predictor[d], Bound(r, facts[c]))
                        ELSE predictor[d]]
    /\ UNCHANGED <<hour, ticks, pc, data, facts, response>>

\* a step of run() that leaves the activation it fired on the agenda
Fire_keep(c, r) ==
    /\ pc[c] = "run"
    /\ agenda[c][r] > 0
    /\ predictor' = [predictor EXCEPT ![c] = RHS(r, @, Bound(r, facts[c]))]
    /\ UNCHANGED <<hour, ticks, pc, data, facts, agenda, response>>

\* line 908, one step of run(): one activation is taken off the agenda and
\* its rule body runs
Fire(c, r) ==
    /\ pc[c] = "run"
    /\ agenda[c][r] > 0
    /\ agenda' = [agenda EXCEPT ![c][r] = @ - 1]
    /\ predictor' = [predictor EXCEPT ![c] = RHS(r, @, Bound(r, facts[c]))]
    /\ UNCHANGED <<hour, ticks, pc, data, facts, response>>

\* lines 908-919: run() returns when the agenda is empty; finalize_decision
\* and the response
PredictRespond(c) ==
    /\ pc[c] = "run"
    /\ agenda[c] = EmptyAgenda
    /\ LET p == finalize_decision(predictor[c]) IN
       /\ predictor' = [predictor EXCEPT ![c] = p]
       /\ response' = [response EXCEPT ![c] =
             [status               |-> 200,
              error                |-> "",
              warnings             |-> p.most_relevant_warnings,
              recommendations      |-> p.most_relevant_recommendations,
              positive_feedback    |-> p.positive_messages,
              positive_suggestions |-> p.positive_suggestions,
              predictions          |-> p.predictions]]
    /\ pc' = [pc EXCEPT ![c] = "done"]
    /\ UNCHANGED <<hour, ticks, data, facts, agenda>>

\* the wall clock reaches the next hour
Tick ==
    /\ ticks < MaxTicks
    /\ hour' = (hour + 1) % 24
    /\ ticks' = ticks + 1
    /\ UNCHANGED <<pc, data, facts, agenda, predictor, response>>

Next ==
    \/ \E c \in Calls : PredictReject(c)
    \/ \E c \in Calls : PredictDeclare(c)
    \/ \E c \in Calls : \E r \in RuleNames : Fire(c, r)
    \/ \E c \in Calls : PredictRespond(c)
    \/ Tick

----------------------------------------------------------------------------
(* Requests *)

\* a body with the six readings, all numbers
Body(ph, do, temp, sal, amm, turb) ==
    [ph_level |-> Num(ph), dissolved_oxygen |-> Num(do), temperature |-> Num(temp),
     salinity |-> Num(sal), ammonia |-> Num(amm), turbidity |-> Num(turb)]

WithKey(d, key, v) == [k \in DOMAIN d \cup {key} |-> IF k = key THEN v ELSE d[k]]
WithoutKey(d, key) == [k \in DOMAIN d \ {key} |-> d[k]]

RequiredKeys == {required_keys[i] : i \in DOMAIN required_keys}

\* the fish_type values tried; "standard" and "goldfish" are not fish types
\* any rule names
FishTypes == {"others", "catfish", "tilapia", "crayfish", "standard", "goldfish"}

\* a body with or without the optional fish_type
Selectors(d) == {d} \cup {WithKey(d, "fish_type", Str(ft)) : ft \in FishTypes}

\* readings on both sides of the thresholds: pH 3.0/5.0/7.0, oxygen 3.0/7.0,
\* temperature 27/35; salinity 0, ammonia 0.1 and turbidity 1.0 breach nothing
NumericBodies ==
    {Body(ph, do, temp, 0, 1, 10) :
        ph \in {30, 50, 70}, do \in {30, 70}, temp \in {270, 350}}

\* what a client can put in place of a reading
BadValues == {Str("7.2"), Num(-10), Bool(TRUE)}

OkBody == Body(70, 70, 270, 0, 1, 10)

FaultyBodies ==
    {WithKey(OkBody, k, v) : k \in RequiredKeys, v \in BadValues}
    \cup {WithoutKey(OkBody, k) : k \in RequiredKeys}
    \cup {WithoutKey(WithKey(OkBody, k, v), "turbidity") : k \in RequiredKeys, v \in BadValues}

Requests == UNION {Selectors(d) : d \in NumericBodies \cup FaultyBodies}

\* hours just before a period begins: night -> morning at 5, morning ->
\* afternoon at 12, afternoon -> evening at 17, evening -> night at 20
StartHours == {4, 11, 16, 19}

InitEngine(active) ==
    /\ ticks = 0
    /\ pc = [c \in Calls |-> IF c \in active THEN "request" ELSE "idle"]
    /\ facts = [c \in Calls |-> <<>>]
    /\ agenda = [c \in Calls |-> EmptyAgenda]
    /\ predictor = [c \in Calls |-> NoPredictor]
    /\ response = [c \in Calls |-> NoResponse]

\* one request
Init ==
    /\ hour \in StartHours
    /\ \E d \in Requests : data = [c \in Calls |-> IF c = 1 THEN d ELSE EmptyDict]
    /\ InitEngine({1})

Spec == Init /\ [][Next]_vars

\* Readings next to every threshold of the rules, in tenths: the threshold,
\* one tenth below and one tenth above.
Around(T) == UNION {{t - 1, t, t + 1} : t \in T}

OxygenSweep      == Around({40, 50}) \cup {30}
TemperatureSweep == Around({180, 200, 240, 250, 260, 300, 320})
PhSweep          == Around({40, 60, 65, 75, 80, 85})
AmmoniaSweep     == Around({10, 20, 25, 30, 35, 45})
SalinitySweep    == Around({10, 50})
TurbiditySweep   == Around({200, 300, 500, 600, 1000})

\* OkBody with one reading moved next to a threshold
SweepBodies ==
    {WithKey(OkBody, "dissolved_oxygen", Num(v)) : v \in OxygenSweep}
    \cup {WithKey(OkBody, "temperature", Num(v)) : v \in TemperatureSweep}
    \cup {WithKey(OkBody, "ph_level", Num(v)) : v \in PhSweep}
    \cup {WithKey(OkBody, "ammonia", Num(v)) : v \in AmmoniaSweep}
    \cup {WithKey(OkBody, "salinity", Num(v)) : v \in SalinitySweep}
    \cup {WithKey(OkBody, "turbidity", Num(v)) : v \in TurbiditySweep}

\* the observations of the documented scenarios, with a turbidity reading:
\* oxygen 1.0 at temperature 20, and oxygen 2 with ammonia 2 at temperature 35
NightOxygenBody == Body(70, 10, 200, 0, 1, 10)
ThreeBreachBody == Body(70, 20, 350, 0, 20, 10)

BandRequests ==
    UNION {Selectors(d) : d \in SweepBodies
                                \cup {NightOxygenBody, ThreeBreachBody}
                                \cup {WithoutKey(OkBody, "turbidity")}}

\* one request, one reading next to a threshold
InitBands ==
    /\ hour \in StartHours
    /\ \E d \in BandRequests : data = [c \in Calls |-> IF c = 1 THEN d ELSE EmptyDict]
    /\ InitEngine({1})

SpecBands == InitBands /\ [][Next]_vars

\* Two requests in flight at once.  pH 5.0 and temperature 35 each breach a
\* severity-3 rule of the default fish type.
PairBodies ==
    {Body(ph, 70, temp, 0, 1, 10) : ph \in {50, 70}, temp \in {270, 350}}

PairRequests ==
    PairBodies
    \cup {WithKey(d, "fish_type", Str(ft)) : d \in PairBodies, ft \in {"others", "standard"}}
    \cup {WithoutKey(OkBody, "turbidity")}

PairStartHours == {11, 19}

InitPair ==
    /\ hour \in PairStartHours
    /\ \E d1 \in PairRequests : \E d2 \in PairRequests :
           data = [c \in Calls |-> IF c = 1 THEN d1 ELSE d2]
    /\ InitEngine({1, 2})

SpecPair == InitPair /\ [][Next]_vars

\* a step of the thread that serves call c
Handler(c) ==
    \/ PredictReject(c)
    \/ PredictDeclare(c)
    \/ \E r \in RuleNames : Fire(c, r)
    \/ PredictRespond(c)

\* complete bodies with no, two and three breaches, and bodies that lack
\* one reading
FairRequests ==
    UNION {Selectors(d) : d \in {OkBody, ThreeBreachBody, Body(30, 30, 350, 0, 1, 10)}}
    \cup {WithoutKey(ThreeBreachBody, k) : k \in RequiredKeys}

InitFair ==
    /\ hour \in {4, 19}
    /\ \E d \in FairRequests : data = [c \in Calls |-> IF c = 1 THEN d ELSE EmptyDict]
    /\ InitEngine({1})

\* One request whose handler thread keeps being scheduled: predict() has no
\* blocking call, and run() is a loop over the agenda.  Nothing is assumed
\* about the clock.
SpecFair == InitFair /\ [][Next]_vars /\ WF_vars(Handler(1))

----------------------------------------------------------------------------
(* Properties *)

\* call c returned an advisory
Answered(c) == pc[c] = "done" /\ response[c].status = 200

\* call c was rejected
Rejected(c) == pc[c] = "done" /\ response[c].status = 400

Issues(c) == predictor[c].relevant_issues

FallbackWarning == "All water parameters are in optimal range!"
FallbackRecommendation ==
    "Maintain regular monitoring and continue good pond management practices."

\* C1 (as claimed): in every advisory exactly one field group is populated:
\* with an issue the positive fields are empty; without one, warnings,
\* recommendations and predictions are empty and the positive fields are not.
C1_ExactlyOneGroup ==
    \A c \in Calls : Answered(c) =>
        IF Issues(c) # <<>>
        THEN /\ response[c].positive_feedback = <<>>
             /\ response[c].positive_suggestions = <<>>
        ELSE /\ response[c].warnings = <<>>
             /\ response[c].recommendations = <<>>
             /\ response[c].predictions = <<>>
             /\ response[c].positive_feedback # <<>>
             /\ response[c].positive_suggestions # <<>>

\* C1 (amended): positive_feedback and positive_suggestions are empty in
\* every advisory; with an issue the warnings are the issues' warnings, and
\* without one the all-optimal message is the single warning, the
\* keep-monitoring text the single recommendation, and predictions is empty.
C1_FallbackInWarnings ==
    \A c \in Calls : Answered(c) =>
        /\ response[c].positive_feedback = <<>>
        /\ response[c].positive_suggestions = <<>>
        /\ IF Issues(c) # <<>>
           THEN /\ Len(response[c].warnings) = Len(Issues(c))
                /\ FallbackWarning \notin
                       {response[c].warnings[i] : i \in DOMAIN response[c].warnings}
           ELSE /\ response[c].warnings = <<FallbackWarning>>
                /\ response[c].recommendations = <<FallbackRecommendation>>
                /\ response[c].predictions = <<>>

\* an advisory for an observation on which no rule produced an issue
C1_Witness ==
    \E c \in Calls : /\ Answered(c)
                     /\ Issues(c) = <<>>
                     /\ response[c].warnings # <<>>

\* the issue behind a warning of the advisory of call c
IssueBehind(c, w) ==
    Issues(c)[CHOOSE k \in DOMAIN Issues(c) : Issues(c)[k].warning = w]

\* C2: in every advisory with issues, the severities of the issues behind
\* warnings[1], warnings[2], ... never increase.
C2_SeverityNonIncreasing ==
    \A c \in Calls : (Answered(c) /\ Issues(c) # <<>>) =>
        \A i \in 1 .. (Len(response[c].warnings) - 1) :
            IssueBehind(c, response[c].warnings[i]).severity
                >= IssueBehind(c, response[c].warnings[i + 1]).severity

\* an advisory whose first and last warnings have different severities
C2_Witness ==
    \E c \in Calls :
        /\ Answered(c)
        /\ Len(Issues(c)) >= 3
        /\ IssueBehind(c, response[c].warnings[1]).severity
               > IssueBehind(c, response[c].warnings[Len(response[c].warnings)]).severity

\* C3: whatever activations have fired, no two entries of relevant_issues
\* carry the same warning text, and no two warnings of a response are equal.
C3_NoDuplicateWarnings ==
    \A c \in Calls :
        /\ \A i, j \in DOMAIN Issues(c) :
               i # j => Issues(c)[i].warning # Issues(c)[j].warning
        /\ \A i, j \in DOMAIN response[c].warnings :
               i # j => response[c].warnings[i] # response[c].warnings[j]

\* both activations of an issue rule have fired and the advisory is out
C3_Witness ==
    \E c \in Calls : \E r \in RuleNames :
        /\ Answered(c)
        /\ LHS(r).key # ""
        /\ Activations(r, facts[c]) = 2
        /\ Issues(c) # <<>>

\* C4 (as claimed): in every advisory, fallback included, warnings,
\* recommendations and predictions have the same length.
C4_SameLengthAlways ==
    \A c \in Calls : Answered(c) =>
        /\ Len(response[c].warnings) = Len(response[c].recommendations)
        /\ Len(response[c].warnings) = Len(response[c].predictions)

\* C4 (amended): when issues exist the three lists have the length of the
\* issue list and entry i of each comes from issue i; in the fallback
\* warnings and recommendations have one entry and predictions has none.
C4_AlignedWhenIssues ==
    \A c \in Calls : Answered(c) =>
        IF Issues(c) # <<>>
        THEN /\ DOMAIN response[c].warnings = DOMAIN Issues(c)
             /\ DOMAIN response[c].recommendations = DOMAIN Issues(c)
             /\ DOMAIN response[c].predictions = DOMAIN Issues(c)
             /\ \A i \in DOMAIN Issues(c) :
                   /\ response[c].warnings[i] = Issues(c)[i].warning
                   /\ response[c].recommendations[i] = Issues(c)[i].recommendation
                   /\ response[c].predictions[i] = Issues(c)[i].prediction
        ELSE /\ Len(response[c].warnings) = 1
             /\ Len(response[c].recommendations) = 1
             /\ Len(response[c].predictions) = 0

\* an advisory with several issues of different categories
C4_Witness ==
    \E c \in Calls :
        /\ Answered(c)
        /\ Len(response[c].predictions) >= 2
        /\ Issues(c)[1].category # Issues(c)[2].category

\* a reading the request must carry is missing, not a JSON number, or negative
FieldInvalid(d, key) ==
    \/ key \notin DOMAIN d
    \/ d[key].t # "num"
    \/ d[key].n < 0

\* C6: predict answers 400, without creating an engine or firing a rule, if
\* and only if some required field is missing, non-numeric or negative;
\* otherwise the request reaches rule evaluation and an advisory is returned.
C6_RejectsIffInvalid ==
    \A c \in Calls : pc[c] = "done" =>
        /\ (\E key \in RequiredKeys : FieldInvalid(data[c], key))
               <=> (Rejected(c) /\ predictor[c] = NoPredictor)
        /\ (\A key \in RequiredKeys : ~ FieldInvalid(data[c], key))
               <=> Answered(c)

\* the five readings other than turbidity are present, numeric, non-negative
OtherFiveValid(d) ==
    \A key \in RequiredKeys \ {"turbidity"} : KeyError(d, key) = ""

\* C7 (as claimed): a request with five valid readings and no turbidity is
\* accepted and evaluated.
C7_TurbidityOptional ==
    \A c \in Calls :
        (pc[c] = "done" /\ OtherFiveValid(data[c]) /\ "turbidity" \notin DOMAIN data[c])
            => Answered(c)

\* C7 (amended): turbidity is required: a request with five valid readings
\* and no turbidity is rejected with 400 "Missing key in input data:
\* turbidity", and no engine is created for it.
C7_TurbidityRequired ==
    \A c \in Calls :
        (pc[c] = "done" /\ OtherFiveValid(data[c]) /\ "turbidity" \notin DOMAIN data[c])
            => /\ Rejected(c)
               /\ response[c].error = "Missing key in input data: turbidity"
               /\ predictor[c] = NoPredictor

\* a finished request that lacks only turbidity
C7_Witness ==
    \E c \in Calls :
        /\ pc[c] = "done"
        /\ OtherFiveValid(data[c])
        /\ "turbidity" \notin DOMAIN data[c]

\* the fish types some rule names
KnownFishTypes == {LHS(r).fish : r \in RuleNames}

\* C9: a request whose fish_type is not a known profile is evaluated with
\* the default profile's thresholds; in particular dissolved oxygen below
\* the default threshold 4 still produces an oxygen issue.
C9_UnknownProfileFallsBack ==
    \A c \in Calls :
        ( /\ Answered(c)
          /\ "fish_type" \in DOMAIN data[c]
          /\ data[c]["fish_type"].s \notin KnownFishTypes
          /\ critically_low_oxygen_others_P(data[c]["dissolved_oxygen"].n) )
        => \E i \in DOMAIN Issues(c) : Issues(c)[i].category = "oxygen"

\* the fish_type a request names ("" if it names none)
NamedFish(d) == IF "fish_type" \in DOMAIN d THEN d["fish_type"].s ELSE ""

OxygenIssues(c) == {i \in DOMAIN Issues(c) : Issues(c)[i].category = "oxygen"}

CatfishOxygenPredictions ==
    {"Catfish may suffocate and die if oxygen levels remain critically low.",
     "Catfish may become lethargic, stop eating, and eventually die if oxygen levels are not increased."}

TilapiaOxygenPredictions ==
    {"Tilapia may suffocate and die if oxygen levels remain critically low.",
     "Tilapia may become lethargic, stop eating, and eventually die if oxygen levels are not increased."}

\* C10: for profile catfish an oxygen issue is produced iff dissolved oxygen
\* is below 4, for profile tilapia iff it is below 5, and the issue is the
\* one of the profile's own rule.
C10_OxygenThresholdPerProfile ==
    \A c \in Calls : Answered(c) =>
        LET do == data[c]["dissolved_oxygen"].n IN
        /\ NamedFish(data[c]) = "catfish" =>
              /\ (OxygenIssues(c) # {}) <=> (do < 40)
              /\ \A i \in OxygenIssues(c) :
                     Issues(c)[i].prediction \in CatfishOxygenPredictions
        /\ NamedFish(data[c]) = "tilapia" =>
              /\ (OxygenIssues(c) # {}) <=> (do < 50)
              /\ \A i \in OxygenIssues(c) :
                     Issues(c)[i].prediction \in TilapiaOxygenPredictions

\* tilapia with dissolved oxygen in [4, 5) got its oxygen issue
C10_Witness ==
    \E c \in Calls :
        /\ Answered(c)
        /\ NamedFish(data[c]) = "tilapia"
        /\ data[c]["dissolved_oxygen"].n >= 40
        /\ data[c]["dissolved_oxygen"].n < 50
        /\ OxygenIssues(c) # {}

\* both calls returned an advisory and the clock did not move meanwhile, so
\* every rule of both evaluations saw the same period
BothAnsweredSamePeriod == Answered(1) /\ Answered(2) /\ ticks = 0

Advisory(c) ==
    <<response[c].warnings, response[c].recommendations, response[c].predictions>>

\* C5: two evaluations of the same request under the same period give
\* identical warnings, recommendations and predictions, in the same order.
C5_Deterministic ==
    (BothAnsweredSamePeriod /\ data[1] = data[2]) => Advisory(1) = Advisory(2)

IssueSet(c) == {Issues(c)[i] : i \in DOMAIN Issues(c)}

Readings(d) == [k \in RequiredKeys |-> d[k]]

\* the request names no fish type or names the default one
DefaultProfile(d) == NamedFish(d) \in {"", default_fish_type}

\* C11: for the default profile at night, oxygen 1.0 with temperature 20,
\* pH 7, ammonia 0.1 and salinity 0 yields exactly one issue, the nighttime
\* oxygen depletion warning of severity 4 and category oxygen.
C11_NightOxygenOnly ==
    \A c \in Calls :
        ( /\ Answered(c)
          /\ Readings(data[c]) = NightOxygenBody
          /\ DefaultProfile(data[c])
          /\ ticks = 0
          /\ get_time_of_day = "night" )
        => /\ Len(Issues(c)) = 1
           /\ Issues(c)[1].warning = "Nighttime oxygen depletion!"
           /\ Issues(c)[1].severity = 4
           /\ Issues(c)[1].category = "oxygen"
           /\ response[c].warnings = <<"Nighttime oxygen depletion!">>

\* the night scenario was answered while it was night throughout
C11_Witness ==
    \E c \in Calls :
        /\ Answered(c)
        /\ Readings(data[c]) = NightOxygenBody
        /\ DefaultProfile(data[c])
        /\ ticks = 0
        /\ get_time_of_day = "night"
        /\ Issues(c) # <<>>

Categories(c) == {Issues(c)[i].category : i \in DOMAIN Issues(c)}

\* C12 (as claimed): for the default profile, oxygen 2 with ammonia 2 and
\* temperature 35 yields exactly three issues, of categories oxygen, ammonia
\* and temperature.
C12_ThreeIssues ==
    \A c \in Calls :
        ( /\ Answered(c)
          /\ Readings(data[c]) = ThreeBreachBody
          /\ DefaultProfile(data[c]) )
        => /\ Len(Issues(c)) = 3
           /\ Categories(c) = {"oxygen", "ammonia", "temperature"}

\* C12 (amended): the same observation sent without fish_type yields exactly
\* two issues, the oxygen issue of severity 4 first and the temperature
\* issue of severity 3 second, each with its own recommendation; ammonia 2
\* is not above the threshold 2.0 and yields none.
C12_TwoIssues ==
    \A c \in Calls :
        ( /\ Answered(c)
          /\ Readings(data[c]) = ThreeBreachBody
          /\ NamedFish(data[c]) = "" )
        => /\ Len(Issues(c)) = 2
           /\ Issues(c)[1].category = "oxygen"
           /\ Issues(c)[1].severity = 4
           /\ Issues(c)[2].category = "temperature"
           /\ Issues(c)[2].severity = 3
           /\ Len(response[c].recommendations) = 2
           /\ response[c].recommendations[1] = Issues(c)[1].recommendation
           /\ response[c].recommendations[2] = Issues(c)[2].recommendation
           /\ response[c].recommendations[1] # response[c].recommendations[2]

\* the observation was answered for a request without fish_type
C12_Witness ==
    \E c \in Calls :
        /\ Answered(c)
        /\ Readings(data[c]) = ThreeBreachBody
        /\ NamedFish(data[c]) = ""
        /\ Issues(c) # <<>>

\* C13: the issues of one evaluation have pairwise different categories,
\* whatever the order and number of rule firings and whatever periods the
\* rules observe.
C13_OneIssuePerCategory ==
    \A c \in Calls : \A i, j \in DOMAIN Issues(c) :
        i # j => Issues(c)[i].category # Issues(c)[j].category

\* the rules with a reading pattern that the facts of call c activate
IssueRules(c) ==
    {r \in RuleNames : LHS(r).key # "" /\ Activations(r, facts[c]) > 0}

\* the issue rule r adds to a fresh engine for the facts of call c, under
\* the period of the current hour
AloneIssue(c, r) ==
    RHS(r, OxygenPredictor_init, Bound(r, facts[c])).relevant_issues[1]

\* the state of call c
CallState(c) == <<pc[c], data[c], facts[c], agenda[c], predictor[c], response[c]>>

\* with the period fixed, the advisory of an answered call holds exactly the
\* issues its own request produces on a fresh engine, and the fish type of
\* its engine is its own
C14_AloneResult ==
    \A c \in Calls : (Answered(c) /\ ticks = 0) =>
        /\ IssueSet(c) = {AloneIssue(c, r) : r \in IssueRules(c)}
        /\ predictor[c].fish_type =
               IF NamedFish(data[c]) \in KnownFishTypes
               THEN NamedFish(data[c]) ELSE "others"

\* a step changes the state of at most one call
C14_OneCallPerStep ==
    Cardinality({c \in Calls : CallState(c)' # CallState(c)}) <= 1

\* C14: concurrent evaluations are independent: whatever the interleaving,
\* a call's advisory is the one its own input and period give alone, and no
\* step of one call changes the issues, warnings or fish type of another.
C14_Independent == [] C14_AloneResult /\ [][C14_OneCallPerStep]_vars

\* two different requests answered side by side, one with issues and one
\* without
C14_Witness ==
    /\ BothAnsweredSamePeriod
    /\ data[1] # data[2]
    /\ Issues(1) # <<>>
    /\ Issues(2) = <<>>

\* how many times the body of rule r has run in the evaluation of call c
TimesRun(c, r) ==
    IF pc[c] \in {"run", "done"} /\ facts[c] # <<>>
    THEN Activations(r, facts[c]) - agenda[c][r]
    ELSE 0

\* C15: within one evaluation no rule body runs more than once, whether or
\* not the request body itself carries the fish_type.
C15_EachRuleOnce ==
    \A c \in Calls : \A r \in RuleNames : TimesRun(c, r) <= 1

\* every reading the body carries is a non-negative JSON number
PresentValid(d) ==
    \A key \in RequiredKeys \cap DOMAIN d : ~ FieldInvalid(d, key)

\* the body carries all six readings, each a non-negative JSON number
Complete(d) == \A key \in RequiredKeys : ~ FieldInvalid(d, key)

\* C16 (as claimed): whichever subset of the readings a body carries, if
\* those present are non-negative numbers the call ends with an advisory.
C16_AdvisoryForAnySubset ==
    \A c \in Calls : (pc[c] = "done" /\ PresentValid(data[c])) => Answered(c)

\* the engine of call c never holds an observation that lacks a reading, and
\* a call whose body lacks a reading ends rejected without an engine
C16_NoPartialObservation ==
    \A c \in Calls :
        /\ facts[c] # <<>> => RequiredKeys \subseteq DOMAIN facts[c][1]
        /\ (pc[c] = "done" /\ ~ (RequiredKeys \subseteq DOMAIN data[c]))
               => (Rejected(c) /\ predictor[c] = NoPredictor /\ facts[c] = <<>>)

\* C16 (amended): every request that carries all six readings as non-negative
\* numbers is evaluated to the end (facts declared, agenda run empty,
\* finalize_decision) and answered with an advisory; a request that lacks a
\* reading is rejected before an engine exists, so no rule is ever matched
\* against an observation with an absent parameter.
C16_TotalWhenComplete ==
    /\ [] C16_NoPartialObservation
    /\ \A c \in Calls :
           (pc[c] = "request" /\ Complete(data[c])) ~> (Answered(c) /\ agenda[c] = EmptyAgenda)

\* a complete request answered after several rule bodies ran across a change
\* of period
C16_Witness ==
    /\ Answered(1)
    /\ Complete(data[1])
    /\ Len(Issues(1)) >= 2
    /\ ticks = MaxTicks
    /\ Len(response[1].warnings) = Len(Issues(1))

\* the categories among the issues of call c
IssueCategories(c) == {Issues(c)[i].category : i \in DOMAIN Issues(c)}

\* C17 (as claimed): the aggregator can apply TOP_K_DIVERSE(2): the advisory
\* then carries at most two issues, no two of one category.  predict() has
\* no policy input, so the advisories it returns are the only ones to test.
C17_AtMostTwoDiverse ==
    \A c \in Calls : Answered(c) =>
        /\ Len(response[c].warnings) <= 2
        /\ \A i, j \in DOMAIN Issues(c) :
               Issues(c)[i].category = Issues(c)[j].category => i = j

\* the step of call c in which finalize_decision runs keeps every issue the
\* rules recorded
KeepsAllIssues(c) ==
    (pc[c] = "run" /\ pc'[c] = "done" /\ Issues(c) # <<>>) =>
        /\ Len(response'[c].warnings) = Len(Issues(c))
        /\ \A i \in DOMAIN Issues(c) : \E j \in DOMAIN response'[c].warnings :
               /\ response'[c].warnings[j] = Issues(c)[i].warning
               /\ response'[c].recommendations[j] = Issues(c)[i].recommendation
               /\ response'[c].predictions[j] = Issues(c)[i].prediction

\* C17 (amended): the aggregator has one selection policy, ALL:
\* finalize_decision puts every deduplicated issue in the advisory, however
\* many there are and whatever their categories; it cannot be asked for
\* TOP_K_DIVERSE(k).
C17_AllIssuesKept == [][\A c \in Calls : KeepsAllIssues(c)]_vars

\* an advisory with issues of three categories, all three reported
C17_Witness ==
    /\ Answered(1)
    /\ Cardinality(IssueCategories(1)) >= 3
    /\ Len(response[1].warnings) >= 3

\* position in the catalog of the rule that recorded the issue with this
\* warning in the evaluation of call c (the clock did not advance)
CatalogIndex(c, warning) ==
    CHOOSE k \in DOMAIN get_rules :
        /\ get_rules[k] \in IssueRules(c)
        /\ AloneIssue(c, get_rules[k]).warning = warning

\* C18: among issues of equal severity the advisory lists them in the order
\* their rules are declared in the catalog, whatever order the engine fired
\* them in.
C18_TiesInCatalogOrder ==
    \A c \in Calls : (Answered(c) /\ ticks = 0) =>
        \A i, j \in DOMAIN Issues(c) :
            (i < j /\ Issues(c)[i].severity = Issues(c)[j].severity)
                => CatalogIndex(c, Issues(c)[i].warning) < CatalogIndex(c, Issues(c)[j].warning)

\* the profile whose rules a request selects ("others" when it names none)
Profile(d) == IF NamedFish(d) = "" THEN default_fish_type ELSE NamedFish(d)

AmmoniaHigh    == [others |-> 20, catfish |-> 30, tilapia |-> 20, crayfish |-> 10]
AmmoniaExtreme == [others |-> 35, catfish |-> 45, tilapia |-> 35, crayfish |-> 25]

AmmoniaIssues(c) == {i \in DOMAIN Issues(c) : Issues(c)[i].category = "ammonia"}
PhIssues(c) == {i \in DOMAIN Issues(c) : Issues(c)[i].category = "ph"}

\* C19: for each profile, ammonia strictly above the high threshold (others
\* 2.0, catfish 3, tilapia 2, crayfish 1) gives exactly one ammonia issue, of
\* severity 5 when strictly above the extreme threshold (3.5, 4.5, 3.5, 2.5)
\* and 4 otherwise; at or below the high threshold there is none.  For the
\* default profile pH < 4 gives one pH issue of severity 5 and 4 <= pH < 6
\* one of severity 3, never both.
C19_AmmoniaAndPhBands ==
    \A c \in Calls : Answered(c) =>
        LET amm == data[c]["ammonia"].n
            ph  == data[c]["ph_level"].n
            f   == Profile(data[c])
        IN  /\ f \in KnownFishTypes =>
                  IF amm > AmmoniaHigh[f]
                  THEN /\ Cardinality(AmmoniaIssues(c)) = 1
                       /\ \A i \in AmmoniaIssues(c) :
                              Issues(c)[i].severity = IF amm > AmmoniaExtreme[f] THEN 5 ELSE 4
                  ELSE AmmoniaIssues(c) = {}
            /\ (DefaultProfile(data[c]) /\ ph < 60) =>
                  /\ Cardinality(PhIssues(c)) = 1
                  /\ \A i \in PhIssues(c) :
                         Issues(c)[i].severity = IF ph < 40 THEN 5 ELSE 3

\* ammonia exactly at the default profile's extreme threshold 3.5 answered
\* with the severity-4 issue
C19_Witness ==
    /\ Answered(1)
    /\ Profile(data[1]) = "others"
    /\ data[1]["ammonia"].n = AmmoniaExtreme["others"]
    /\ \E i \in AmmoniaIssues(1) : Issues(1)[i].severity = 4

TurbidityHigh == [others |-> 500, catfish |-> 600, tilapia |-> 300, crayfish |-> 200]

TurbidityIssues(c) == {i \in DOMAIN Issues(c) : Issues(c)[i].category = "turbidity"}

\* C20: the turbidity rules are evaluated: for each profile a turbidity
\* reading above the profile's threshold (others 50, catfish 60, tilapia 30,
\* crayfish 20) puts an issue of category turbidity in the advisory, for
\* profile others of severity 3 ("High turbidity ...") and above 100 also
\* of severity 5 ("Extremely high turbidity ...").
C20_TurbidityEvaluated ==
    \A c \in Calls : Answered(c) =>
        LET turb == data[c]["turbidity"].n
            f    == Profile(data[c])
        IN  /\ (f \in KnownFishTypes /\ turb > TurbidityHigh[f]) => TurbidityIssues(c) # {}
            /\ (f = "others" /\ turb > 500) =>
                   \E i \in TurbidityIssues(c) : Issues(c)[i].severity = 3
            /\ (f = "others" /\ turb > 1000) =>
                   \E i \in TurbidityIssues(c) : Issues(c)[i].severity = 5

Periods == {"morning", "afternoon", "evening", "night"}

\* the periods under which the default profile's oxygen and high-temperature
\* rules render a warning (lines 117-134 and 213-246); a text that does not
\* depend on the period is rendered under all of them
PeriodsOf(warning) ==
    IF warning = "Nighttime oxygen depletion!" THEN {"night"}
    ELSE IF warning = "Critically low oxygen levels! Fish may be lethargic or surfacing."
         THEN {"morning", "afternoon", "evening"}
    ELSE IF warning = "High morning temperatures detected! Oxygen levels may drop."
         THEN {"morning"}
    ELSE IF warning = "High afternoon temperatures detected! Oxygen levels may drop."
         THEN {"afternoon"}
    ELSE IF warning = "High evening temperatures detected! Oxygen levels may drop."
         THEN {"evening"}
    ELSE IF warning = "High nighttime temperatures detected! Oxygen levels may drop."
         THEN {"night"}
    ELSE Periods

\* C21: the messages of one advisory are all rendered for one period, even
\* when the clock crosses a period boundary while the rules fire: there is a
\* period under which every warning of the advisory is the text its rule
\* renders (so no nighttime oxygen warning beside an evening temperature
\* warning, and no two variants of one rule's warning).
C21_OnePeriodPerAdvisory ==
    \A c \in Calls : Answered(c) =>
        \E p \in Periods :
            \A i \in DOMAIN response[c].warnings : p \in PeriodsOf(response[c].warnings[i])

\* C22: with the period held fixed, a request without fish_type and the same
\* request with fish_type "others" get identical responses: the same
\* warnings, recommendations, predictions and positive fields, in the same
\* order.
C22_OmittedEqualsExplicit ==
    ( /\ BothAnsweredSamePeriod
      /\ "fish_type" \notin DOMAIN data[1]
      /\ data[2] = WithKey(data[1], "fish_type", Str(default_fish_type)) )
    => response[1] = response[2]

====
